---- MODULE Spec2Model ----
(***************************************************************************)
(* A model of the Neotron OS console and configuration core (src/lib.rs):  *)
(* the VGA text console driver, the serial console adapter, the print!     *)
(* dispatcher, the configuration store and the boot sequence, and of the   *)
(* screen commands (src/commands/screen.rs).                               *)
(*                                                                         *)
(* Characters are code points (naturals), framebuffer bytes are 0..255.    *)
(* The framebuffer is the memory the console's `addr` points to.  It is    *)
(* modelled one row longer than the visible grid, because scroll_page      *)
(* writes to the row at index `height` (see scroll_page below).            *)
(***************************************************************************)
EXTENDS Integers, Sequences, FiniteSets, TLC

VARIABLES
    overflow_checks, \* build profile: TRUE = arithmetic overflow panics (debug)
    platform,        \* what the BIOS answers: API version, text mode geometry
    pc,              \* where main() is
    API,             \* static mut API: TRUE once main has stored Some(api)
    VGA_CONSOLE,     \* static mut VGA_CONSOLE: the VgaConsole struct, or None
    fb,              \* the bytes at VGA_CONSOLE.addr (platform memory)
    SERIAL_CONSOLE,  \* static mut SERIAL_CONSOLE: SerialConsole(port), or None
    config,          \* the Config record in use
    loaded,          \* the Result of the last Config::load() / save()
    blob,            \* the configuration bytes the platform persists
    pending,         \* the print! invocations of the println! being executed
    printing,        \* the macro invocation being executed, or executed last
    fill,            \* the locals of the screen_fill command, and what it wrote
    calls,           \* the sink and platform calls made so far, in order
    serial_errors,   \* how many serial transmits have failed
    panic_info,      \* the message of the panic raised, "" when none
    last,            \* the operation performed last, with the state it started from
    hist,            \* the characters written since construction / the last clear()
    cleared          \* clear() has run since construction

vars == <<overflow_checks, platform, pc, API, VGA_CONSOLE, fb, SERIAL_CONSOLE,
          config, loaded, blob, pending, printing, fill, calls, serial_errors,
          panic_info,
          last, hist, cleared>>

\* the variables only the boot sequence, the dispatcher and the configuration
\* store touch
boot_vars == <<platform, pc, API, SERIAL_CONSOLE, config, loaded, blob, pending,
               printing, calls, serial_errors>>

panicked == panic_info # ""

----------------------------------------------------------------------------
(* Bounds of the model *)

MaxW == 3
MaxH == 2
MaxStrLen == 2
MaxHist == 3
MaxSerialErrors == 2
MaxInvocations == 2
MaxFills == 2

----------------------------------------------------------------------------
(* Program constants *)

\* self.width, self.height, self.row, self.col are u8
U8 == 256

\* const DEFAULT_ATTR: u8 = (15 << 3) | 0
DEFAULT_ATTR == 15 * 8

SPACE == 32
QUESTION == 63
CR == 13
LF == 10
LATIN1_MAX == 255


\* serial_baud: u32.  A u32 is kept as two 16-bit halves [hi, lo], its value
\* being hi * 65536 + lo.
HALF == 65536
u32(n) == [hi |-> n \div HALF, lo |-> n % HALF]
U32_MAX == [hi |-> HALF - 1, lo |-> HALF - 1]

\* Option<u8>
Some(a) == [some |-> TRUE, val |-> a]
None == [some |-> FALSE, val |-> 0]

----------------------------------------------------------------------------
(* Inputs *)

\* 'A', a code point above 0xFF (U+263A), '\n', '\r'
Chars == {65, 9786, LF, CR}

RECURSIVE StringsUpTo(_)
StringsUpTo(n) ==
    IF n = 0 THEN {<< >>}
    ELSE LET shorter == StringsUpTo(n - 1)
         IN  shorter \cup {Append(s, ch) : s \in shorter, ch \in Chars}

Strings == StringsUpTo(MaxStrLen) \ {<< >>}

\* Text geometries the platform may report: the small grids, and one grid whose
\* width does not fit in 7 bits (width * 2 exceeds the u8 range).
Geometries ==
    ((1..MaxW) \X (1..MaxH)) \cup {<<U8 \div 2, 2>>}

\* What the platform's memory holds before the console touches it: every cell
\* differs from its neighbours in glyph and in attribute.
InitialMemory(width, height) ==
    [i \in 0..((height + 1) * width * 2 - 1) |->
        IF i % 2 = 0 THEN 97 + ((i \div 2) % 5)
                     ELSE 1 + ((i \div 2) % 3)]

----------------------------------------------------------------------------
(* VgaConsole.  A console value c carries the struct fields, the memory at   *)
(* addr (c.mem) and the message of a panic raised while operating on it.      *)

Console(v, mem) ==
    [width |-> v.width, height |-> v.height, row |-> v.row, col |-> v.col,
     mem |-> mem, panic |-> "", wild |-> FALSE]

Struct(c) ==
    [some |-> TRUE, width |-> c.width, height |-> c.height,
     row |-> c.row, col |-> c.col]

\* let offset = ((isize::from(self.row) * isize::from(self.width)) + isize::from(self.col)) * 2
cell_offset(row, width, col) == ((row * width) + col) * 2

\* a write that stores DEFAULT_ATTR whenever it is given no attribute
write_default_attr(c, glyph, attr) ==
    LET offset == cell_offset(c.row, c.width, c.col)
    IN  IF offset + 1 \in DOMAIN c.mem
        THEN [c EXCEPT !.mem = [c.mem EXCEPT
                                   ![offset] = glyph,
                                   ![offset + 1] = IF attr.some THEN attr.val
                                                   ELSE DEFAULT_ATTR]]
        ELSE [c EXCEPT !.wild = TRUE]

\* fn write(&mut self, glyph: u8, attr: Option<u8>)
\* A write whose offset lies beyond the modelled memory is recorded in c.wild.
write(c, glyph, attr) ==
    LET offset == cell_offset(c.row, c.width, c.col)
        m1 == [c.mem EXCEPT ![offset] = glyph]
        m2 == IF attr.some THEN [m1 EXCEPT ![offset + 1] = attr.val] ELSE m1
    IN  IF offset + 1 \in DOMAIN c.mem
        THEN [c EXCEPT !.mem = m2]
        ELSE [c EXCEPT !.wild = TRUE]

\* the loop `for col in 0..self.width { self.col = col; self.write(b' ', Some(DEFAULT_ATTR)) }`
\* run for each row in lo..hi-1 with self.row = row: every iteration writes the
\* two bytes at cell_offset(row, width, col); the loop leaves row = hi - 1 and
\* col = width - 1 behind.
blank_rows(c, lo, hi) ==
    IF lo >= hi THEN c
    ELSE LET first == cell_offset(lo, c.width, 0)
             end == cell_offset(hi - 1, c.width, c.width - 1) + 2
         IN  [c EXCEPT
                !.mem = [i \in DOMAIN c.mem |->
                            IF first <= i /\ i < end
                            THEN (IF i % 2 = 0 THEN SPACE ELSE DEFAULT_ATTR)
                            ELSE c.mem[i]],
                !.wild = c.wild \/ (end - 1) \notin DOMAIN c.mem,
                !.row = hi - 1,
                !.col = c.width - 1]

\* core::ptr::copy(src, dst, count): a memmove of count bytes from offset src
\* to offset 0; every destination byte receives the source byte's old value.
ptr_copy(mem, src, count) ==
    [i \in DOMAIN mem |->
        IF i < count /\ (i + src) \in DOMAIN mem THEN mem[i + src] ELSE mem[i]]

\* `self.width * 2`, a u8 product, as a build without overflow checks
\* computes it
scroll_source_offset(width) == (width * 2) % U8

\* fn scroll_page(&mut self)
scroll_page(c) ==
    IF overflow_checks /\ c.width * 2 >= U8
    THEN [c EXCEPT !.panic = "attempt to multiply with overflow"]
    ELSE LET src == scroll_source_offset(c.width)
             count == c.width * (c.height - 1) * 2
             copied == [c EXCEPT !.mem = ptr_copy(c.mem, src, count)]
         IN  [blank_rows(copied, c.row, c.row + 1) EXCEPT !.col = 0]

\* move_char_down without the clamp of the row after the scroll
move_char_down_unclamped(c) ==
    LET c1 == [c EXCEPT !.row = c.row + 1]
    IN  IF c1.row = c1.height THEN scroll_page(c1) ELSE c1

\* fn move_char_down(&mut self)
move_char_down(c) ==
    LET c1 == [c EXCEPT !.row = c.row + 1]
    IN  IF c1.row = c1.height
        THEN LET c2 == scroll_page(c1)
             IN  IF c2.panic # "" THEN c2 ELSE [c2 EXCEPT !.row = c2.height - 1]
        ELSE c1

\* move_char_right without the wrap at the last column
move_char_right_no_wrap(c) == [c EXCEPT !.col = c.col + 1]

\* fn move_char_right(&mut self)
move_char_right(c) ==
    LET c1 == [c EXCEPT !.col = c.col + 1]
    IN  IF c1.col = c1.width
        THEN move_char_down([c1 EXCEPT !.col = 0])
        ELSE c1

\* clear() without the final `self.row = 0; self.col = 0`
clear_keeps_cursor(c) == blank_rows(c, 0, c.height)

\* fn clear(&mut self)
clear(c) == [blank_rows(c, 0, c.height) EXCEPT !.row = 0, !.col = 0]

\* the match of write_str with `b as u8` applied to every character that is
\* not a control character
write_char_truncating(c, ch) ==
    IF ch = CR THEN [c EXCEPT !.col = 0]
    ELSE IF ch = LF THEN move_char_down([c EXCEPT !.col = 0])
    ELSE move_char_right(write(c, ch % U8, None))

\* the match of write_str with '\r' handled by the arm of '\n'
write_char_cr_as_newline(c, ch) ==
    IF ch = CR \/ ch = LF THEN move_char_down([c EXCEPT !.col = 0])
    ELSE IF ch <= LATIN1_MAX THEN move_char_right(write(c, ch, None))
    ELSE move_char_right(write(c, QUESTION, None))

\* one iteration of `for ch in data.chars() { match ch { .. } }`
write_char(c, ch) ==
    IF ch = CR THEN [c EXCEPT !.col = 0]
    ELSE IF ch = LF THEN move_char_down([c EXCEPT !.col = 0])
    ELSE IF ch <= LATIN1_MAX THEN move_char_right(write(c, ch, None))
    ELSE move_char_right(write(c, QUESTION, None))

\* impl core::fmt::Write for VgaConsole: fn write_str(&mut self, data: &str)
RECURSIVE VgaConsole_write_str(_, _)
VgaConsole_write_str(c, data) ==
    IF data = << >> \/ c.panic # "" THEN c
    ELSE VgaConsole_write_str(write_char(c, Head(data)), Tail(data))

----------------------------------------------------------------------------
(* The console object driven directly: construction, then clear() and       *)
(* write_str() in any order.                                                 *)

NoOp ==
    [op |-> "new", arg |-> << >>, row |-> 0, col |-> 0, mem |-> << >>,
     ncalls |-> 0, errors |-> 0]

\* no print! or println! has been invoked yet
NotPrinting == [macro |-> "none", has_args |-> FALSE, args |-> << >>,
                ncalls |-> 0, count |-> 0]

\* screen_fill has not run
NoFill == [remaining |-> 0, bg |-> 0, fg |-> 1, glyph |-> SPACE, attr |-> DEFAULT_ATTR,
           cells |-> 0, written |-> 0, same_colour |-> FALSE, runs |-> 0]

NoConsole == [some |-> FALSE, width |-> 0, height |-> 0, row |-> 0, col |-> 0]
NoSerial == [some |-> FALSE, port |-> 0]
\* impl core::default::Default for Config
Config_default ==
    [vga_console_on |-> TRUE, serial_console_on |-> FALSE, serial_baud |-> u32(115200)]

NoResult == [ok |-> FALSE, val |-> Config_default, err |-> "none", panic |-> ""]

Init ==
    /\ overflow_checks \in BOOLEAN
    /\ \E g \in Geometries :
          /\ VGA_CONSOLE = [some |-> TRUE, width |-> g[1], height |-> g[2],
                            row |-> 0, col |-> 0]
          /\ fb = InitialMemory(g[1], g[2])
          /\ platform = [api_version_ok |-> TRUE,
                         text_width |-> Some(g[1]), text_height |-> Some(g[2])]
    /\ pc = "console"
    /\ API = TRUE
    /\ SERIAL_CONSOLE = NoSerial
    /\ config = Config_default
    /\ loaded = NoResult
    /\ blob = << >>
    /\ pending = << >>
    /\ printing = NotPrinting
    /\ fill = NoFill
    /\ calls = << >>
    /\ serial_errors = 0
    /\ panic_info = ""
    /\ last = NoOp
    /\ hist = << >>
    /\ cleared = FALSE

Before(op, arg) ==
    [op |-> op, arg |-> arg, row |-> VGA_CONSOLE.row, col |-> VGA_CONSOLE.col,
     mem |-> fb, ncalls |-> Len(calls), errors |-> serial_errors]

Clear ==
    /\ pc = "console"
    /\ ~panicked
    /\ VGA_CONSOLE.some
    /\ LET c == clear(Console(VGA_CONSOLE, fb))
       IN  /\ VGA_CONSOLE' = Struct(c)
           /\ fb' = c.mem
           /\ panic_info' = c.panic
    /\ last' = Before("clear", << >>)
    /\ hist' = << >>
    /\ cleared' = TRUE
    /\ UNCHANGED <<overflow_checks, fill, boot_vars>>

WriteStr ==
    /\ pc = "console"
    /\ ~panicked
    /\ VGA_CONSOLE.some
    /\ \E data \in Strings :
          /\ Len(hist) + Len(data) <= MaxHist
          /\ LET c == VgaConsole_write_str(Console(VGA_CONSOLE, fb), data)
             IN  /\ VGA_CONSOLE' = Struct(c)
                 /\ fb' = c.mem
                 /\ panic_info' = c.panic
          /\ last' = Before("write_str", data)
          /\ hist' = hist \o data
    /\ UNCHANGED <<overflow_checks, fill, cleared, boot_vars>>

Next == Clear \/ WriteStr

Spec == Init /\ [][Next]_vars

\* The console object written one character at a time, the characters drawn
\* from both sides of the 0xFF boundary of the match in write_str: a control
\* character that has no arm of its own (tab), U+00FF, U+0100 and char::MAX.
EdgeChars == {9, LATIN1_MAX, LATIN1_MAX + 1, 1114111}

WriteGlyph ==
    /\ pc = "console"
    /\ ~panicked
    /\ VGA_CONSOLE.some
    /\ Len(hist) < MaxHist
    /\ \E ch \in EdgeChars :
          /\ LET c == VgaConsole_write_str(Console(VGA_CONSOLE, fb), <<ch>>)
             IN  /\ VGA_CONSOLE' = Struct(c)
                 /\ fb' = c.mem
                 /\ panic_info' = c.panic
          /\ last' = Before("write_str", <<ch>>)
          /\ hist' = Append(hist, ch)
    /\ UNCHANGED <<overflow_checks, fill, cleared, boot_vars>>

GlyphNext == WriteGlyph

GlyphSpec == Init /\ [][GlyphNext]_vars

----------------------------------------------------------------------------
(* Configuration store: struct Config, encoded with postcard (one byte per   *)
(* bool, a little-endian base-128 varint for the u32).                       *)

\* let mut buffer = [0u8; 64]
CONFIG_BUFFER_LEN == 64
\* postcard: the longest varint of a u32, and the largest value of its last byte
VARINT_MAX_U32 == 5
VARINT_LAST_MAX_U32 == 15

Bauds ==
    {u32(n) : n \in {0, 1, 127, 128, 300, 9600, 16383, 16384, 115200, 2097151,
                     2097152, 268435455, 268435456}}
    \cup {U32_MAX}

Records ==
    [vga_console_on : BOOLEAN, serial_console_on : BOOLEAN, serial_baud : Bauds]

Ok(v) == [ok |-> TRUE, val |-> v, err |-> "", panic |-> ""]
Err(e) == [ok |-> FALSE, val |-> Config_default, err |-> e, panic |-> ""]

serialize_bool(b) == IF b THEN <<1>> ELSE <<0>>

\* v >> 7
u32_shr7(v) == [hi |-> v.hi \div 128, lo |-> (v.lo \div 128) + ((v.hi % 128) * 512)]

\* a varint that keeps only the low seven bits of the value
serialize_u32_one_byte(v) == <<v.lo % 128>>

\* postcard's varint of a u32: seven bits per byte, low bits first, bit 7 set
\* on every byte but the last
RECURSIVE serialize_u32(_)
serialize_u32(v) ==
    IF v.hi = 0 /\ v.lo < 128 THEN <<v.lo>>
    ELSE <<(v.lo % 128) + 128>> \o serialize_u32(u32_shr7(v))

\* postcard::to_slice(self, &mut buffer): the fields in declaration order
to_slice(cfg) ==
    LET bytes == serialize_bool(cfg.vga_console_on)
                 \o serialize_bool(cfg.serial_console_on)
                 \o serialize_u32(cfg.serial_baud)
    IN  IF Len(bytes) > CONFIG_BUFFER_LEN
        THEN [ok |-> FALSE, bytes |-> << >>]
        ELSE [ok |-> TRUE, bytes |-> bytes]

RECURSIVE pow2(_)
pow2(k) == IF k = 0 THEN 1 ELSE 2 * pow2(k - 1)

\* out | ((carry as u32) << (7 * i)), the shift truncated to 32 bits; the bits
\* of out at and above 7 * i are still zero, so the OR adds
u32_or_shl(out, carry, i) ==
    IF 7 * i < 16
    THEN LET s == carry * pow2(7 * i)
         IN  [hi |-> out.hi + (s \div HALF), lo |-> out.lo + (s % HALF)]
    ELSE [hi |-> out.hi + ((carry * pow2((7 * i) - 16)) % HALF), lo |-> out.lo]

\* postcard's try_take_varint_u32, iteration i of its loop, reading bytes[pos]
RECURSIVE take_varint_u32(_, _, _, _)
take_varint_u32(bytes, pos, i, out) ==
    IF i = VARINT_MAX_U32 THEN [ok |-> FALSE, val |-> u32(0), pos |-> pos]
    ELSE IF pos > Len(bytes) THEN [ok |-> FALSE, val |-> u32(0), pos |-> pos]
    ELSE LET val == bytes[pos]
             carry == val % 128
             out2 == u32_or_shl(out, carry, i)
         IN  IF val < 128
             THEN IF i = VARINT_MAX_U32 - 1 /\ val > VARINT_LAST_MAX_U32
                  THEN [ok |-> FALSE, val |-> u32(0), pos |-> pos]
                  ELSE [ok |-> TRUE, val |-> out2, pos |-> pos + 1]
             ELSE take_varint_u32(bytes, pos + 1, i + 1, out2)

\* postcard's bool: one byte, 0 or 1
take_bool(bytes, pos) ==
    IF pos > Len(bytes) THEN [ok |-> FALSE, val |-> FALSE, pos |-> pos]
    ELSE IF bytes[pos] = 0 THEN [ok |-> TRUE, val |-> FALSE, pos |-> pos + 1]
    ELSE IF bytes[pos] = 1 THEN [ok |-> TRUE, val |-> TRUE, pos |-> pos + 1]
    ELSE [ok |-> FALSE, val |-> FALSE, pos |-> pos]

\* postcard::from_bytes::<Config>(bytes): the fields in declaration order;
\* bytes left over after the record are not looked at
from_bytes(bytes) ==
    LET f1 == take_bool(bytes, 1)
        f2 == take_bool(bytes, f1.pos)
        f3 == take_varint_u32(bytes, f2.pos, 0, u32(0))
    IN  IF f1.ok /\ f2.ok /\ f3.ok
        THEN Ok([vga_console_on |-> f1.val, serial_console_on |-> f2.val,
                 serial_baud |-> f3.val])
        ELSE Err("Failed to parse config")

\* the buffer after (api.configuration_get)(..) has stored `bytes` in it
Buffer(bytes) ==
    [i \in 1..CONFIG_BUFFER_LEN |-> IF i <= Len(bytes) THEN bytes[i] ELSE 0]

\* fn load() -> Result<Config, &'static str>
\* got = what configuration_get did: Err, or Ok(got.n) with got.bytes stored
Config_load(api, got) ==
    IF ~api THEN Err("No API available?!")
    ELSE IF ~got.ok THEN Err("Failed to load config")
    ELSE IF got.n > CONFIG_BUFFER_LEN
    THEN [Err("") EXCEPT !.panic = "range end index out of range for slice"]
    ELSE from_bytes(SubSeq(Buffer(got.bytes), 1, got.n))

\* Config::load().unwrap_or_else(|_| Config::default())
unwrap_or_default(res) == IF res.ok THEN res.val ELSE Config_default

\* The configuration store driven directly: a record, save(), load().
ConfigInit ==
    /\ overflow_checks = FALSE
    /\ platform = [api_version_ok |-> TRUE, text_width |-> None, text_height |-> None]
    /\ pc = "config"
    /\ API = TRUE
    /\ VGA_CONSOLE = NoConsole
    /\ fb = << >>
    /\ SERIAL_CONSOLE = NoSerial
    /\ config \in Records
    /\ loaded = NoResult
    /\ blob = << >>
    /\ pending = << >>
    /\ printing = NotPrinting
    /\ fill = NoFill
    /\ calls = << >>
    /\ serial_errors = 0
    /\ panic_info = ""
    /\ last = NoOp
    /\ hist = << >>
    /\ cleared = FALSE

\* fn save(&self) -> Result<(), &'static str>
Save ==
    /\ pc = "config"
    /\ API
    /\ LET res == to_slice(config)
       IN  IF res.ok
           THEN /\ blob' = res.bytes
                /\ loaded' = Ok(Config_default)   \* Ok(())
           ELSE /\ blob' = blob
                /\ loaded' = Err("Failed to parse config")
    /\ last' = [NoOp EXCEPT !.op = "save"]
    /\ UNCHANGED <<overflow_checks, fill, platform, pc, API, VGA_CONSOLE, fb,
                   SERIAL_CONSOLE, config, pending, printing, calls, serial_errors,
                   panic_info, hist, cleared>>

\* Config::load() with a platform that returns the bytes it persisted
Load ==
    /\ pc = "config"
    /\ loaded' = Config_load(API, [ok |-> TRUE, n |-> Len(blob), bytes |-> blob])
    /\ last' = [NoOp EXCEPT !.op = "load", !.arg = blob]
    /\ UNCHANGED <<overflow_checks, fill, platform, pc, API, VGA_CONSOLE, fb,
                   SERIAL_CONSOLE, config, blob, pending, printing, calls,
                   serial_errors,
                   panic_info, hist, cleared>>

ConfigNext == Save \/ Load

ConfigSpec == ConfigInit /\ [][ConfigNext]_vars

----------------------------------------------------------------------------
(* Serial console, the print! dispatcher and the boot sequence.  A world w   *)
(* carries the globals a print! touches: the two consoles, the framebuffer,  *)
(* the calls made so far and the message of a panic it raised.               *)

\* data.as_bytes(): the UTF-8 bytes of a string of code points
RECURSIVE as_bytes(_)
as_bytes(data) ==
    IF data = << >> THEN << >>
    ELSE LET cp == Head(data)
             enc == IF cp < 128 THEN <<cp>>
                    ELSE IF cp < 2048 THEN <<192 + (cp \div 64), 128 + (cp % 64)>>
                    ELSE IF cp < 65536
                    THEN <<224 + (cp \div 4096), 128 + ((cp \div 64) % 64), 128 + (cp % 64)>>
                    ELSE <<240 + (cp \div 262144), 128 + ((cp \div 4096) % 64),
                           128 + ((cp \div 64) % 64), 128 + (cp % 64)>>
         IN  enc \o as_bytes(Tail(data))

NoLine == [data_rate_bps |-> u32(0), data_bits |-> 0, stop_bits |-> 0,
           parity |-> "", handshaking |-> ""]

Call(name, port, data, line) ==
    [call |-> name, port |-> port, data |-> data, line |-> line]

World ==
    [vga |-> VGA_CONSOLE, mem |-> fb, serial |-> SERIAL_CONSOLE, api |-> API,
     calls |-> calls, errors |-> serial_errors, panic |-> ""]

\* impl core::fmt::Write for SerialConsole: fn write_str(&mut self, data: &str)
\* tx_ok: whether the platform's serial_write returns Ok
SerialConsole_write_str(w, data, tx_ok) ==
    IF w.api
    THEN LET called == [w EXCEPT !.calls =
                            Append(@, Call("serial_write", w.serial.port,
                                           as_bytes(data), NoLine))]
         IN  IF tx_ok THEN called
             ELSE [called EXCEPT !.errors = @ + 1,
                                 !.panic = "called Result::unwrap() on an Err value"]
    ELSE w

\* the VGA half of print!: write!(console, ..).unwrap() on VGA_CONSOLE
print_vga(w, text) ==
    IF w.vga.some
    THEN LET c == VgaConsole_write_str(Console(w.vga, w.mem), text)
         IN  [w EXCEPT !.vga = Struct(c), !.mem = c.mem, !.panic = c.panic,
                       !.calls = Append(@, Call("VgaConsole::write_str", 0, text, NoLine))]
    ELSE w

\* the serial half of print!: write!(console, ..).unwrap() on SERIAL_CONSOLE
print_serial(w, text, tx_ok) ==
    IF w.serial.some THEN SerialConsole_write_str(w, text, tx_ok) ELSE w

\* print! with the serial console served before the VGA console
print_serial_first(w, text, tx_ok) ==
    LET w1 == print_serial(w, text, tx_ok)
    IN  IF w1.panic # "" THEN w1 ELSE print_vga(w1, text)

\* macro_rules! print: the formatted text goes to VGA_CONSOLE, then to
\* SERIAL_CONSOLE; a panic in the first statement skips the second
print(w, text, tx_ok) ==
    LET w1 == print_vga(w, text)
    IN  IF w1.panic # "" THEN w1 ELSE print_serial(w1, text, tx_ok)

\* println! that ends without the print! of the newline
println_without_newline(text) == <<text>>

\* macro_rules! println: print!(args) followed by print! of a newline
println(text) == <<text, <<LF>>>>

\* macro_rules! println, the arm without arguments: print! of a newline
println_noargs == <<<<LF>>>>

\* a macro invocation that begins when ncalls calls have been made
Invoked(macro, has_args, args, ncalls) ==
    [macro |-> macro, has_args |-> has_args, args |-> args,
     ncalls |-> ncalls, count |-> printing.count + 1]

\* The formatted text of a message (the wording of the messages plays no part)
Messages == {<<65>>, <<9786, 65>>}

\* a has_vga_console that ignores the record
has_vga_console_always(cfg) == TRUE

\* fn has_vga_console(&self) -> bool
has_vga_console(cfg) == cfg.vga_console_on

\* a has_serial_console that takes the baud rate of the default record
has_serial_console_default_baud(cfg) ==
    IF cfg.serial_console_on
    THEN [some |-> TRUE, port |-> 0,
          line |-> [data_rate_bps |-> Config_default.serial_baud, data_bits |-> 8,
                    stop_bits |-> 1, parity |-> "None", handshaking |-> "None"]]
    ELSE [some |-> FALSE, port |-> 0, line |-> NoLine]

\* fn has_serial_console(&self) -> Option<(u8, bios::serial::Config)>
has_serial_console(cfg) ==
    IF cfg.serial_console_on
    THEN [some |-> TRUE, port |-> 0,
          line |-> [data_rate_bps |-> cfg.serial_baud, data_bits |-> 8,
                    stop_bits |-> 1, parity |-> "None", handshaking |-> "None"]]
    ELSE [some |-> FALSE, port |-> 0, line |-> NoLine]

\* What (api.configuration_get)(..) may do: fail, or report n bytes after
\* storing some bytes in the buffer.
Blobs ==
    {<< >>,
     to_slice(Config_default).bytes,
     to_slice([vga_console_on |-> FALSE, serial_console_on |-> TRUE,
               serial_baud |-> u32(9600)]).bytes,
     to_slice([vga_console_on |-> TRUE, serial_console_on |-> TRUE,
               serial_baud |-> u32(300)]).bytes,
     <<2, 0, 0>>,
     <<1, 1, 255, 255, 255, 255, 127>>}

ReadCounts == {0, 1, 3, 5, 7, CONFIG_BUFFER_LEN, CONFIG_BUFFER_LEN + 1}

ConfigReads ==
    {[ok |-> FALSE, n |-> 0, bytes |-> << >>]}
    \cup {[ok |-> TRUE, n |-> n, bytes |-> b] : n \in ReadCounts, b \in Blobs}

\* what (api.serial_configure)(idx, serial_config) may return
ConfigureResults == {"Ok", "Err"}

\* mode.text_width() / mode.text_height()
TextWidths == {None} \cup {Some(w) : w \in 1..MaxW}
TextHeights == {None} \cup {Some(h) : h \in 1..MaxH}

BootInit ==
    /\ overflow_checks \in BOOLEAN
    /\ platform \in [api_version_ok : BOOLEAN, text_width : TextWidths,
                      text_height : TextHeights]
    /\ fb = IF platform.text_width.some /\ platform.text_height.some
            THEN InitialMemory(platform.text_width.val, platform.text_height.val)
            ELSE << >>
    /\ pc = "start"
    /\ API = FALSE
    /\ VGA_CONSOLE = NoConsole
    /\ SERIAL_CONSOLE = NoSerial
    /\ config = Config_default
    /\ loaded = NoResult
    /\ blob = << >>
    /\ pending = << >>
    /\ printing = NotPrinting
    /\ fill = NoFill
    /\ calls = << >>
    /\ serial_errors = 0
    /\ panic_info = ""
    /\ last = NoOp
    /\ hist = << >>
    /\ cleared = FALSE

\* main, lines 280-288: the version check, API = Some(api), the configuration
Main_start ==
    /\ pc = "start"
    /\ IF ~platform.api_version_ok
       THEN /\ panic_info' = "API mismatch!"
            /\ pc' = "panic"
            /\ last' = Before("main_start", [ok |-> FALSE, n |-> 0, bytes |-> << >>])
            /\ calls' = Append(calls, Call("api_version_get", 0, << >>, NoLine))
            /\ UNCHANGED <<API, config, loaded>>
       ELSE \E got \in ConfigReads :
               LET res == Config_load(TRUE, got)
               IN  /\ API' = TRUE
                   /\ calls' = calls
                                \o <<Call("api_version_get", 0, << >>, NoLine),
                                     Call("configuration_get", 0, << >>, NoLine)>>
                   /\ last' = Before("main_start", got)
                   /\ loaded' = res
                   /\ IF res.panic # ""
                      THEN /\ panic_info' = res.panic
                           /\ pc' = "panic"
                           /\ config' = config
                      ELSE /\ panic_info' = panic_info
                           /\ pc' = "vga"
                           /\ config' = unwrap_or_default(res)
    /\ UNCHANGED <<overflow_checks, fill, platform, VGA_CONSOLE, fb, SERIAL_CONSOLE,
                   blob, pending, printing, serial_errors, hist, cleared>>

\* main, lines 290-308: the VGA console
Main_vga ==
    /\ pc = "vga"
    /\ pending = << >>
    /\ pc' = "serial"
    /\ last' = Before("main_vga", << >>)
    /\ IF /\ has_vga_console(config)
          /\ platform.text_width.some
          /\ platform.text_height.some
       THEN LET vga == [some |-> TRUE,
                        width |-> platform.text_width.val % U8,
                        height |-> platform.text_height.val % U8,
                        row |-> 0, col |-> 0]
                c == clear(Console(vga, fb))
            IN  /\ VGA_CONSOLE' = Struct(c)
                /\ fb' = c.mem
                /\ calls' = calls
                             \o <<Call("video_get_mode", 0, << >>, NoLine),
                                  Call("video_get_framebuffer", 0, << >>, NoLine)>>
                /\ \E text \in Messages :
                      /\ pending' = println(text)
                      /\ printing' = Invoked("println", TRUE, text, Len(calls) + 2)
       ELSE /\ calls' = IF has_vga_console(config)
                        THEN Append(calls, Call("video_get_mode", 0, << >>, NoLine))
                        ELSE calls
            /\ UNCHANGED <<VGA_CONSOLE, fb, pending, printing>>
    /\ UNCHANGED <<overflow_checks, fill, platform, API, SERIAL_CONSOLE, config, loaded,
                   blob, serial_errors, panic_info, hist, cleared>>

\* main, lines 310-314: the serial console
Main_serial ==
    /\ pc = "serial"
    /\ pending = << >>
    /\ pc' = "welcome"
    /\ LET plan == has_serial_console(config)
       IN  IF plan.some
           THEN /\ calls' = Append(calls, Call("serial_configure", plan.port,
                                               << >>, plan.line))
                \* let _ignored = (api.serial_configure)(idx, serial_config)
                /\ \E result \in ConfigureResults :
                      last' = Before("main_serial", <<result>>)
                /\ SERIAL_CONSOLE' = [some |-> TRUE, port |-> plan.port]
                /\ \E text \in Messages :
                      /\ pending' = println(text)
                      /\ printing' = Invoked("println", TRUE, text, Len(calls) + 1)
           ELSE /\ last' = Before("main_serial", << >>)
                /\ UNCHANGED <<calls, SERIAL_CONSOLE, pending, printing>>
    /\ UNCHANGED <<overflow_checks, fill, platform, API, VGA_CONSOLE, fb, config, loaded,
                   blob, serial_errors, panic_info, hist, cleared>>

\* main, line 317: println! of the welcome message
Main_welcome ==
    /\ pc = "welcome"
    /\ pending = << >>
    /\ pc' = "test_panic"
    /\ last' = Before("main_welcome", << >>)
    /\ \E text \in Messages :
          /\ pending' = println(text)
          /\ printing' = Invoked("println", TRUE, text, Len(calls))
    /\ UNCHANGED <<overflow_checks, fill, platform, API, VGA_CONSOLE, fb, SERIAL_CONSOLE,
                   config, loaded, blob, calls, serial_errors, panic_info, hist,
                   cleared>>

\* main, line 318: the test panic
Main_panic ==
    /\ pc = "test_panic"
    /\ pending = << >>
    /\ pc' = "panic"
    /\ panic_info' = "Testing a panic..."
    /\ last' = Before("main_panic", << >>)
    /\ UNCHANGED <<overflow_checks, fill, platform, API, VGA_CONSOLE, fb, SERIAL_CONSOLE,
                   config, loaded, blob, pending, printing, calls, serial_errors,
                   hist,
                   cleared>>

\* fn panic(info): println! of the panic message, then loop forever
PanicHandler ==
    /\ pc = "panic"
    /\ pc' = "loop"
    /\ last' = Before("panic", << >>)
    /\ \E text \in Messages :
          /\ pending' = println(text)
          /\ printing' = Invoked("println", TRUE, text, Len(calls))
    /\ UNCHANGED <<overflow_checks, fill, platform, API, VGA_CONSOLE, fb, SERIAL_CONSOLE,
                   config, loaded, blob, calls, serial_errors, panic_info, hist,
                   cleared>>

\* one print! invocation: the next one of the println! being executed
PrintCall ==
    /\ pending # << >>
    /\ \E tx_ok \in (IF SERIAL_CONSOLE.some /\ serial_errors < MaxSerialErrors
                      THEN BOOLEAN ELSE {TRUE}) :
          LET w == print(World, Head(pending), tx_ok)
          IN  /\ VGA_CONSOLE' = w.vga
              /\ fb' = w.mem
              /\ calls' = w.calls
              /\ serial_errors' = w.errors
              /\ IF w.panic # ""
                 THEN /\ panic_info' = w.panic
                      /\ pc' = "panic"
                      /\ pending' = << >>
                 ELSE /\ panic_info' = panic_info
                      /\ pc' = pc
                      /\ pending' = Tail(pending)
    /\ last' = Before("print", Head(pending))
    /\ UNCHANGED <<overflow_checks, fill, platform, API, SERIAL_CONSOLE, config, loaded,
                   blob, printing, hist, cleared>>

BootNext ==
    \/ Main_start
    \/ Main_vga
    \/ Main_serial
    \/ Main_welcome
    \/ Main_panic
    \/ PanicHandler
    \/ PrintCall

BootSpec == BootInit /\ [][BootNext]_vars

----------------------------------------------------------------------------
(* The print! and println! macros invoked directly, in the state main leaves  *)
(* the consoles in: each console present or absent, the VGA console cleared   *)
(* and holding the line main printed when it created it.                      *)

DispatchInit ==
    /\ overflow_checks \in BOOLEAN
    /\ platform \in [api_version_ok : {TRUE}, text_width : TextWidths,
                      text_height : TextHeights]
    /\ config \in [vga_console_on : BOOLEAN, serial_console_on : BOOLEAN,
                    serial_baud : {Config_default.serial_baud}]
    /\ IF /\ has_vga_console(config)
          /\ platform.text_width.some
          /\ platform.text_height.some
       THEN \E text \in Messages :
               LET vga == [some |-> TRUE,
                           width |-> platform.text_width.val % U8,
                           height |-> platform.text_height.val % U8,
                           row |-> 0, col |-> 0]
                   mem == InitialMemory(vga.width, vga.height)
                   c == VgaConsole_write_str(clear(Console(vga, mem)),
                                             text \o <<LF>>)
               IN  VGA_CONSOLE = Struct(c) /\ fb = c.mem
       ELSE VGA_CONSOLE = NoConsole /\ fb = << >>
    /\ SERIAL_CONSOLE = [some |-> has_serial_console(config).some,
                         port |-> has_serial_console(config).port]
    /\ pc = "dispatch"
    /\ API = TRUE
    /\ loaded = NoResult
    /\ blob = << >>
    /\ pending = << >>
    /\ printing = NotPrinting
    /\ fill = NoFill
    /\ calls = << >>
    /\ serial_errors = 0
    /\ panic_info = ""
    /\ last = NoOp
    /\ hist = << >>
    /\ cleared = FALSE

\* the macro begins: its print! invocations are still to be executed
Invoke(macro, has_args, args, prints) ==
    /\ pc = "dispatch"
    /\ pending = << >>
    /\ ~panicked
    /\ printing.count < MaxInvocations
    /\ pending' = prints
    /\ printing' = Invoked(macro, has_args, args, Len(calls))
    /\ last' = Before(macro, args)
    /\ UNCHANGED <<overflow_checks, fill, platform, pc, API, VGA_CONSOLE, fb,
                   SERIAL_CONSOLE, config, loaded, blob, calls, serial_errors,
                   panic_info, hist, cleared>>

\* print!(args)
Print_args == \E text \in Messages : Invoke("print", TRUE, text, <<text>>)

\* println!(args)
Println_args == \E text \in Messages : Invoke("println", TRUE, text, println(text))

\* println!()
Println_noargs == Invoke("println", FALSE, << >>, println_noargs)

DispatchNext ==
    \/ Print_args
    \/ Println_args
    \/ Println_noargs
    \/ PrintCall

DispatchSpec == DispatchInit /\ [][DispatchNext]_vars

----------------------------------------------------------------------------
(* The screen commands (src/commands/screen.rs), run in the state main       *)
(* leaves the consoles in.  The console methods set_attr and write_bstr are   *)
(* not part of src/lib.rs: they follow the specification of the console.      *)

\* let mut remaining = height * width: a 16-bit product
U16 == 65536
\* for fg in 1..=15
FG_LAST == 15
\* for bg in (0..=7).cycle()
BG_COUNT == 8
\* (b' '..=b'~').cycle()
TILDE == 126

\* Attr::new(fg, bg, false), packed as DEFAULT_ATTR is (15 << 3 | 0 is white on
\* black)
Attr_new(fg, bg) == (fg * 8) + bg

\* console.set_attr(attr): the attribute of the glyphs written next
set_attr(f, attr) == [f EXCEPT !.attr = attr]

\* console.write_bstr(bstr): every byte is stored with the attribute set, and
\* the cursor advances
RECURSIVE write_bstr(_, _, _)
write_bstr(c, attr, bstr) ==
    IF bstr = << >> \/ c.panic # "" THEN c
    ELSE write_bstr(move_char_right(write(c, Head(bstr), Some(attr))), attr,
                    Tail(bstr))

\* the next (bg, fg) of `for bg in (0..=7).cycle() { for fg in 1..=15 { .. } }`
next_colours(f) ==
    IF f.fg = FG_LAST
    THEN [f EXCEPT !.fg = 1, !.bg = (f.bg + 1) % BG_COUNT]
    ELSE [f EXCEPT !.fg = f.fg + 1]

\* char_cycle.next()
next_glyph(glyph) == IF glyph = TILDE THEN SPACE ELSE glyph + 1

\* fn clear(..): the screen_clear command
Screen_clear ==
    /\ pc = "dispatch"
    /\ pending = << >>
    /\ ~panicked
    /\ last' = Before("screen_clear", << >>)
    /\ IF VGA_CONSOLE.some
       THEN LET c == clear(Console(VGA_CONSOLE, fb))
            IN  VGA_CONSOLE' = Struct(c) /\ fb' = c.mem
       ELSE UNCHANGED <<VGA_CONSOLE, fb>>
    /\ UNCHANGED <<overflow_checks, fill, platform, pc, API, SERIAL_CONSOLE, config,
                   loaded, blob, pending, printing, calls, serial_errors,
                   panic_info, hist, cleared>>

\* what (api.video_get_mode)() may answer when the command runs: the text mode
\* the console was made for, or a mode without a text size
FillModes ==
    {[text_width |-> platform.text_width, text_height |-> platform.text_height],
     [text_width |-> None, text_height |-> None]}

\* fn fill(..), lines 34-45: clear, the mode, the counters
Fill_start ==
    /\ pc = "dispatch"
    /\ pending = << >>
    /\ ~panicked
    /\ fill.runs < MaxFills
    /\ last' = Before("fill_start", << >>)
    /\ IF VGA_CONSOLE.some
       THEN LET c == clear(Console(VGA_CONSOLE, fb))
            IN  /\ VGA_CONSOLE' = Struct(c)
                /\ fb' = c.mem
                /\ calls' = Append(calls, Call("video_get_mode", 0, << >>, NoLine))
                /\ \E mode \in FillModes :
                      IF mode.text_width.some /\ mode.text_height.some
                      THEN /\ fill' = [fill EXCEPT
                                          !.remaining = (mode.text_height.val
                                                         * mode.text_width.val) % U16,
                                          !.cells = mode.text_height.val
                                                    * mode.text_width.val,
                                          !.bg = 0, !.fg = 1, !.glyph = SPACE,
                                          !.written = 0, !.same_colour = FALSE,
                                          !.runs = @ + 1]
                           /\ pc' = "fill"
                           /\ UNCHANGED <<pending, printing>>
                      ELSE /\ fill' = [fill EXCEPT !.runs = @ + 1]
                           /\ pc' = pc
                           /\ \E text \in Messages :
                                 /\ pending' = println(text)
                                 /\ printing' = Invoked("println", TRUE, text,
                                                         Len(calls) + 1)
       ELSE /\ fill' = [fill EXCEPT !.runs = @ + 1]
            /\ UNCHANGED <<VGA_CONSOLE, fb, calls, pc, pending, printing>>
    /\ UNCHANGED <<overflow_checks, platform, API, SERIAL_CONSOLE, config, loaded,
                   blob, serial_errors, panic_info, hist, cleared>>

\* fn fill(..), lines 49-62: one turn of the loop `for fg in 1..=15`
Fill_step ==
    /\ pc = "fill"
    /\ last' = Before("fill_step", << >>)
    /\ IF fill.fg = fill.bg
       THEN \* continue
            /\ fill' = next_colours(fill)
            /\ UNCHANGED <<VGA_CONSOLE, fb, pc, panic_info>>
       ELSE IF fill.remaining = 0 /\ overflow_checks
       THEN \* remaining -= 1
            /\ panic_info' = "attempt to subtract with overflow"
            /\ pc' = "panic"
            /\ UNCHANGED <<VGA_CONSOLE, fb, fill>>
       ELSE LET remaining == (fill.remaining + U16 - 1) % U16
            IN  IF remaining = 0
                THEN \* break 'outer
                     /\ fill' = [fill EXCEPT !.remaining = remaining]
                     /\ pc' = "fill_end"
                     /\ UNCHANGED <<VGA_CONSOLE, fb, panic_info>>
                ELSE LET attr == Attr_new(fill.fg, fill.bg)
                         f == set_attr(fill, attr)
                         c == write_bstr(Console(VGA_CONSOLE, fb), f.attr,
                                         <<fill.glyph>>)
                     IN  /\ VGA_CONSOLE' = Struct(c)
                         /\ fb' = c.mem
                         /\ panic_info' = c.panic
                         /\ pc' = IF c.panic # "" THEN "panic" ELSE pc
                         /\ fill' = next_colours(
                                       [f EXCEPT
                                          !.remaining = remaining,
                                          !.glyph = next_glyph(fill.glyph),
                                          !.written = @ + 1,
                                          !.same_colour =
                                              @ \/ (attr \div 8 = attr % 8)])
    /\ UNCHANGED <<overflow_checks, platform, API, SERIAL_CONSOLE, config, loaded,
                   blob, pending, printing, calls, serial_errors, hist, cleared>>

\* fn fill(..), lines 64-69: the attribute is set back to white on black
Fill_end ==
    /\ pc = "fill_end"
    /\ pc' = "dispatch"
    /\ last' = Before("fill_end", << >>)
    /\ fill' = set_attr(fill, Attr_new(FG_LAST, 0))
    /\ UNCHANGED <<overflow_checks, platform, API, VGA_CONSOLE, fb, SERIAL_CONSOLE,
                   config, loaded, blob, pending, printing, calls, serial_errors,
                   panic_info, hist, cleared>>

FillNext ==
    \/ Screen_clear
    \/ Fill_start
    \/ Fill_step
    \/ Fill_end
    \/ PrintCall

FillSpec == DispatchInit /\ [][FillNext]_vars

----------------------------------------------------------------------------
(* Properties of the console object *)

W == VGA_CONSOLE.width
H == VGA_CONSOLE.height

GlyphAt(mem, r, c) == mem[cell_offset(r, W, c)]
AttrAt(mem, r, c) == mem[cell_offset(r, W, c) + 1]

BlankCell(mem, r, c) == GlyphAt(mem, r, c) = SPACE /\ AttrAt(mem, r, c) = DEFAULT_ATTR

\* the byte a character is shown as
Rendered(ch) == IF ch <= LATIN1_MAX THEN ch ELSE QUESTION

\* The last call was write_str of a single character that advanced the row
\* (a '\n', or a glyph written in the last column) with the cursor on the last row.
AdvancedAtBottom ==
    /\ last.op = "write_str"
    /\ Len(last.arg) = 1
    /\ last.row = H - 1
    /\ \/ last.arg[1] = LF
       \/ last.arg[1] \notin {CR, LF} /\ last.col = W - 1

\* the memory as it was when that row advance began (after the glyph was stored)
MemAtAdvance ==
    IF last.arg[1] = LF THEN last.mem
    ELSE [last.mem EXCEPT ![cell_offset(last.row, W, last.col)] = Rendered(last.arg[1])]

\* C1: after clear() returns, every cell of the grid holds (space, DEFAULT_ATTR)
\* and the cursor is (0, 0), whatever the grid and the cursor were before.
C1_ClearBlanksGridAndHomes ==
    last.op = "clear" =>
        /\ \A r \in 0..(H - 1), c \in 0..(W - 1) : BlankCell(fb, r, c)
        /\ VGA_CONSOLE.row = 0
        /\ VGA_CONSOLE.col = 0

\* clear() has run on a grid that held a non-blank cell, from a cursor away from home
C1_Witness ==
    /\ last.op = "clear"
    /\ last.row > 0
    /\ last.col > 0
    /\ \E r \in 0..(H - 1), c \in 0..(W - 1) :
          GlyphAt(last.mem, r, c) # SPACE /\ AttrAt(last.mem, r, c) # DEFAULT_ATTR

\* C2: after a row advance made on the last row, every cell of row H-1 holds
\* (space, DEFAULT_ATTR) and the cursor row is H-1.
C2_BottomRowBlankAfterAdvance ==
    (AdvancedAtBottom /\ ~panicked) =>
        /\ \A c \in 0..(W - 1) : BlankCell(fb, H - 1, c)
        /\ VGA_CONSOLE.row = H - 1

\* C3: after a scroll on a grid of at least two rows, every cell of rows 0..H-2
\* holds the glyph and the attribute the cell below it held before the scroll.
C3_ScrollShiftsRowsUp ==
    (AdvancedAtBottom /\ ~panicked /\ H >= 2) =>
        \A r \in 0..(H - 2), c \in 0..(W - 1) :
            /\ GlyphAt(fb, r, c) = GlyphAt(MemAtAdvance, r + 1, c)
            /\ AttrAt(fb, r, c) = AttrAt(MemAtAdvance, r + 1, c)

\* The same statement for the widths whose doubled value fits the u8 range.
ScrollShiftsRowsUpNarrow ==
    (W * 2 < U8) => C3_ScrollShiftsRowsUp

\* The characters written since the cursor was last put at (0, 0) hold no
\* '\r' or '\n' and are fewer than the grid has cells.
PlainRun ==
    /\ ~panicked
    /\ Len(hist) < W * H
    /\ \A i \in 1..Len(hist) : hist[i] \notin {CR, LF}

\* C4 as stated: the i-th character written from (0,0) is stored in cell
\* (i div W, i mod W) and the cursor ends at (n div W, n mod W).
C4_RunStoresCharacters ==
    PlainRun =>
        /\ \A i \in 0..(Len(hist) - 1) :
              GlyphAt(fb, i \div W, i % W) = hist[i + 1]
        /\ VGA_CONSOLE.row = Len(hist) \div W
        /\ VGA_CONSOLE.col = Len(hist) % W

\* C4 amended: cell (i div W, i mod W) holds the byte the i-th character is
\* shown as (its code point when <= 0xFF, '?' otherwise); the cursor ends at
\* (n div W, n mod W).
C4_RunStoresRenderedCharacters ==
    PlainRun =>
        /\ \A i \in 0..(Len(hist) - 1) :
              GlyphAt(fb, i \div W, i % W) = Rendered(hist[i + 1])
        /\ VGA_CONSOLE.row = Len(hist) \div W
        /\ VGA_CONSOLE.col = Len(hist) % W

\* a run that wrapped onto the next row and holds a character above 0xFF
C4_Witness ==
    /\ PlainRun
    /\ Len(hist) > W
    /\ \E i \in 1..Len(hist) : hist[i] > LATIN1_MAX
    /\ \E i \in 1..Len(hist) : hist[i] <= LATIN1_MAX

\* C5: after every completed clear() and write_str() the cursor is inside the
\* grid, and a row advance made on the last row leaves the row at height - 1.
C5_CursorInsideGrid ==
    ~panicked =>
        /\ VGA_CONSOLE.row < H
        /\ VGA_CONSOLE.col < W
        /\ AdvancedAtBottom => VGA_CONSOLE.row = H - 1

\* a write_str that scrolled a grid of several rows and columns has completed
C5_Witness ==
    /\ ~panicked
    /\ AdvancedAtBottom
    /\ H >= 2
    /\ W >= 2

\* the index in hist of the k-th '\n' (0 for k = 0)
NewlineIndex(k) ==
    IF k = 0 THEN 0
    ELSE CHOOSE i \in 1..Len(hist) :
            /\ hist[i] = LF
            /\ Cardinality({j \in 1..i : hist[j] = LF}) = k

\* the k-th newline-terminated line of hist
LineOf(k) == SubSeq(hist, NewlineIndex(k - 1) + 1, NewlineIndex(k) - 1)

\* hist is exactly H lines, each shorter than W and ended by '\n', written on a
\* cleared grid: the H-th newline has just been processed.
WroteHLines ==
    /\ ~panicked
    /\ cleared
    /\ H >= 2
    /\ Len(hist) > 0
    /\ hist[Len(hist)] = LF
    /\ Cardinality({j \in 1..Len(hist) : hist[j] = LF}) = H
    /\ \A j \in 1..Len(hist) : hist[j] # CR
    /\ \A k \in 1..H : Len(LineOf(k)) < W

\* C6: once the H-th newline of H newline-separated lines written on a cleared
\* grid has been processed, row 0 holds the second line and the last row is blank.
C6_ScrolledAfterHLines ==
    WroteHLines =>
        /\ \A c \in 0..(W - 1) :
              GlyphAt(fb, 0, c) =
                 IF c < Len(LineOf(2)) THEN Rendered(LineOf(2)[c + 1]) ELSE SPACE
        /\ \A c \in 0..(W - 1) : GlyphAt(fb, H - 1, c) = SPACE

\* the console as it was when the last operation began
ConsoleBefore ==
    Console([width |-> W, height |-> H, row |-> last.row, col |-> last.col],
            last.mem)

\* the console now, in the same shape
ConsoleNow ==
    [Console(VGA_CONSOLE, fb) EXCEPT !.panic = panic_info]

\* the last call was write_str of one character that is neither '\r' nor '\n'
WroteOneGlyph ==
    /\ last.op = "write_str"
    /\ Len(last.arg) = 1
    /\ last.arg[1] \notin {CR, LF}

\* the cursor that call started from was on the last cell of the grid
StartedOnLastCell == last.row = H - 1 /\ last.col = W - 1

\* the framebuffer that call started from, with byte g in the cell under the cursor
MemWithGlyph(g) == [last.mem EXCEPT ![cell_offset(last.row, W, last.col)] = g]

\* the cursor one column further, wrapped to the next row after the last column
CursorAdvanced ==
    IF last.col = W - 1
    THEN VGA_CONSOLE.row = last.row + 1 /\ VGA_CONSOLE.col = 0
    ELSE VGA_CONSOLE.row = last.row /\ VGA_CONSOLE.col = last.col + 1

\* C12: write_str of a character above 0xFF stores '?' in the cell under the
\* cursor and moves the cursor one column on (wrapping, and scrolling from the
\* last cell), leaving the console exactly as writing the byte '?' does; a
\* character up to 0xFF other than '\r' and '\n' stores its code point.
C12_HighCharsRenderAsQuestion ==
    WroteOneGlyph =>
        LET ch == last.arg[1]
            glyph == IF ch > LATIN1_MAX THEN QUESTION ELSE ch
        IN  /\ ~StartedOnLastCell =>
                  /\ ~panicked
                  /\ fb = MemWithGlyph(glyph)
                  /\ CursorAdvanced
            /\ (StartedOnLastCell /\ ~panicked) =>
                  /\ VGA_CONSOLE.row = H - 1
                  /\ VGA_CONSOLE.col = 0
                  /\ fb = move_char_down([ConsoleBefore EXCEPT
                                             !.mem = MemWithGlyph(glyph),
                                             !.col = 0]).mem
            /\ ch > LATIN1_MAX =>
                  LET q == VgaConsole_write_str(ConsoleBefore, <<QUESTION>>)
                  IN  /\ fb = q.mem
                      /\ VGA_CONSOLE.row = q.row
                      /\ VGA_CONSOLE.col = q.col
                      /\ panic_info = q.panic

\* U+0100 has been written in the last column of a row that is not the last,
\* next to a cell that received U+00FF
C12_Witness ==
    /\ WroteOneGlyph
    /\ ~panicked
    /\ last.arg[1] = LATIN1_MAX + 1
    /\ W >= 2
    /\ last.col = W - 1
    /\ last.row < H - 1
    /\ GlyphAt(fb, last.row, last.col) = QUESTION
    /\ hist[Len(hist) - 1] = LATIN1_MAX
    /\ GlyphAt(fb, last.row, last.col - 1) = LATIN1_MAX

\* C13: write_str of '\r' sets col to 0 and changes neither the row nor any
\* framebuffer byte; write_str of '\n' sets col to 0 and, from a row above the
\* last, moves the row down by one and changes no framebuffer byte.
C13_ControlCharacters ==
    (last.op = "write_str" /\ Len(last.arg) = 1) =>
        /\ last.arg[1] = CR =>
              /\ ~panicked
              /\ VGA_CONSOLE.col = 0
              /\ VGA_CONSOLE.row = last.row
              /\ fb = last.mem
        /\ (last.arg[1] = LF /\ last.row < H - 1) =>
              /\ ~panicked
              /\ VGA_CONSOLE.col = 0
              /\ VGA_CONSOLE.row = last.row + 1
              /\ fb = last.mem
        /\ (last.arg[1] = LF /\ last.row = H - 1 /\ ~panicked) =>
              /\ VGA_CONSOLE.col = 0
              /\ VGA_CONSOLE.row = H - 1

\* '\r' has been written from the middle of the second row, which an earlier
\* '\n' had moved the cursor to
C13_Witness ==
    /\ last.op = "write_str"
    /\ last.arg = <<CR>>
    /\ last.col > 0
    /\ last.row = 1
    /\ H >= 2
    /\ Len(hist) = 3
    /\ hist[1] = LF
    /\ VGA_CONSOLE.col = 0
    /\ VGA_CONSOLE.row = 1

\* the number of bytes of the grid: width * height cells of two bytes
GridBytes == W * H * 2

\* C15: no console operation writes a framebuffer byte outside the grid: the
\* memory after the grid's width*height*2 bytes is as the platform left it.
C15_WritesInsideGrid ==
    \A i \in DOMAIN fb : i >= GridBytes => fb[i] = InitialMemory(W, H)[i]

\* The part of C15 that holds: clear(), and a one-character write_str that
\* does not scroll, leave the memory after the grid as it was.
WritesInsideGridWithoutScroll ==
    (\/ last.op = "clear"
     \/ last.op = "write_str" /\ Len(last.arg) = 1 /\ ~AdvancedAtBottom) =>
        \A i \in DOMAIN fb : i >= GridBytes => fb[i] = last.mem[i]

\* C16: write_str of one printable character that triggers no scroll writes
\* one framebuffer byte, the glyph byte of the cell under the cursor: that
\* cell's attribute byte and every byte of every other cell stay as they were.
C16_GlyphWriteTouchesOneByte ==
    (WroteOneGlyph /\ ~StartedOnLastCell) =>
        LET offset == cell_offset(last.row, W, last.col)
        IN  /\ fb[offset] = Rendered(last.arg[1])
            /\ fb[offset + 1] = last.mem[offset + 1]
            /\ \A i \in DOMAIN fb : i # offset => fb[i] = last.mem[i]
            /\ DOMAIN fb = DOMAIN last.mem

\* 'A' has been written, without a scroll, over a cell that held another
\* glyph and an attribute other than the default one
C16_Witness ==
    /\ WroteOneGlyph
    /\ ~StartedOnLastCell
    /\ last.arg[1] = 65
    /\ GlyphAt(last.mem, last.row, last.col) # 65
    /\ AttrAt(last.mem, last.row, last.col) # DEFAULT_ATTR
    /\ GlyphAt(fb, last.row, last.col) = 65
    /\ W * H >= 4

\* C20: whenever a grid of at least two rows scrolls, the source offset of
\* the copy, computed as width * 2 in 8-bit arithmetic, is the length of one
\* row (2 * width bytes) and the product does not overflow.
C20_ScrollSourceIsOneRow ==
    (AdvancedAtBottom /\ H >= 2) =>
        /\ panic_info # "attempt to multiply with overflow"
        /\ scroll_source_offset(W) = 2 * W

\* The same statement for the widths up to 127.
ScrollSourceIsOneRowNarrow ==
    (W * 2 < U8) => C20_ScrollSourceIsOneRow

----------------------------------------------------------------------------
(* Properties of the configuration store *)

\* C8: the bytes save() writes for a record decode in load() to that record,
\* in all three fields, for every 32-bit baud rate.
C8_ConfigRoundTrip ==
    (last.op = "load" /\ blob # << >>) =>
        /\ loaded.ok
        /\ loaded.val.vga_console_on = config.vga_console_on
        /\ loaded.val.serial_console_on = config.serial_console_on
        /\ loaded.val.serial_baud = config.serial_baud

\* a record with a five-byte baud rate has been saved and loaded back
C8_Witness ==
    /\ last.op = "load"
    /\ blob # << >>
    /\ Len(blob) = 2 + VARINT_MAX_U32
    /\ config.serial_baud = U32_MAX
    /\ loaded.ok

----------------------------------------------------------------------------
(* Properties of the boot sequence and of the dispatcher *)

\* the configuration read main has just made did not yield a record: the
\* platform call failed, or the bytes it reported do not decode
ReadYieldsNoRecord ==
    \/ ~last.arg.ok
    \/ last.arg.n > CONFIG_BUFFER_LEN
    \/ ~from_bytes(SubSeq(Buffer(last.arg.bytes), 1, last.arg.n)).ok

\* C7: whatever the configuration read returns - an error, or Ok(n) for any n
\* and any buffer content - boot goes on with a configuration record, and that
\* record is the default whenever the read failed or the bytes did not decode.
C7_ConfigFallback ==
    (last.op = "main_start" /\ platform.api_version_ok) =>
        /\ pc = "vga"
        /\ panic_info = ""
        /\ ReadYieldsNoRecord => config = Config_default

\* The same statement for the reads that report no more bytes than the buffer holds.
ConfigFallbackWithinBuffer ==
    (last.op = "main_start" /\ platform.api_version_ok
        /\ last.arg.n <= CONFIG_BUFFER_LEN) =>
        /\ pc = "vga"
        /\ panic_info = ""
        /\ ReadYieldsNoRecord => config = Config_default

\* the calls the print! just executed has made
CallsOfLast == SubSeq(calls, last.ncalls + 1, Len(calls))

\* C9: a print! hands its text to the VGA console first and then the same text
\* (as its bytes) to the serial console; a console that is absent is not
\* called, changes nothing and raises no error.
C9_VgaBeforeSerial ==
    last.op = "print" =>
        /\ CallsOfLast =
              (IF VGA_CONSOLE.some
               THEN <<Call("VgaConsole::write_str", 0, last.arg, NoLine)>>
               ELSE << >>)
              \o (IF SERIAL_CONSOLE.some
                  THEN <<Call("serial_write", SERIAL_CONSOLE.port,
                              as_bytes(last.arg), NoLine)>>
                  ELSE << >>)
        /\ ~VGA_CONSOLE.some => (fb = last.mem /\ VGA_CONSOLE = NoConsole)
        /\ ~SERIAL_CONSOLE.some => (serial_errors = last.errors /\ pc # "panic")

\* a print! of a text holding a character above 0xFF has reached both consoles
C9_Witness ==
    /\ last.op = "print"
    /\ VGA_CONSOLE.some
    /\ SERIAL_CONSOLE.some
    /\ Len(CallsOfLast) = 2
    /\ \E i \in 1..Len(last.arg) : last.arg[i] > LATIN1_MAX

\* C10: when the serial transmit of a print! fails, the VGA console has still
\* received the text of that print! and the program goes on (it does not panic).
C10_SerialFailureTolerated ==
    (last.op = "print" /\ serial_errors > last.errors) =>
        /\ VGA_CONSOLE.some =>
              CallsOfLast[1] = Call("VgaConsole::write_str", 0, last.arg, NoLine)
        /\ pc # "panic"
        /\ panic_info # "called Result::unwrap() on an Err value"

\* The part of C10 the code does provide: the VGA console has received the text
\* of the print! whose serial transmit failed.
SerialFailureAfterVga ==
    (last.op = "print" /\ serial_errors > last.errors /\ VGA_CONSOLE.some) =>
        CallsOfLast[1] = Call("VgaConsole::write_str", 0, last.arg, NoLine)

\* the bytes load() hands to the decoder: &buffer[0..n]
BytesRead == SubSeq(Buffer(last.arg.bytes), 1, last.arg.n)

\* b is exactly the encoding of a record: it decodes, and the record it decodes
\* to encodes to b
IsEncoding(b) == from_bytes(b).ok /\ to_slice(from_bytes(b).val).bytes = b

\* main has just called load(), and the platform reported a byte count the
\* buffer can hold
LoadedFromRead ==
    /\ last.op = "main_start"
    /\ platform.api_version_ok
    /\ last.arg.ok
    /\ last.arg.n <= CONFIG_BUFFER_LEN

\* C14: load() reports a failure for every blob that is not exactly the
\* encoding of a record: a truncated encoding, a blob with a boolean byte other
\* than 0 and 1, an encoding followed by extra bytes.
C14_LoadRejectsInexactBlobs ==
    (LoadedFromRead /\ ~IsEncoding(BytesRead)) => ~loaded.ok

\* The truncation part: a strict prefix of an encoding is rejected.
LoadRejectsTruncation ==
    (LoadedFromRead /\ IsEncoding(last.arg.bytes)
        /\ last.arg.n < Len(last.arg.bytes)) => ~loaded.ok

\* The boolean part: a blob whose first or second byte is neither 0 nor 1 is
\* rejected.
LoadRejectsBadBool ==
    (LoadedFromRead /\ \E i \in 1..2 :
                          i <= Len(BytesRead) /\ BytesRead[i] \notin {0, 1})
        => ~loaded.ok

\* main has run past the two console sections (lines 290-314)
ConsolesInitialised == pc \in {"welcome", "test_panic"}

GeometryReported == platform.text_width.some /\ platform.text_height.some

\* C11: once main has initialised the consoles, the VGA console exists exactly
\* when the record has vga_console_on and the platform reported a text width
\* and a text height, and the serial console exists exactly when the record
\* has serial_console_on, whatever serial_configure returned; a console the
\* record disables never exists; the VGA section never aborts boot.
C11_ConsolesFollowConfig ==
    /\ VGA_CONSOLE.some => (config.vga_console_on /\ GeometryReported)
    /\ SERIAL_CONSOLE.some => config.serial_console_on
    /\ ConsolesInitialised =>
          /\ VGA_CONSOLE.some <=> (config.vga_console_on /\ GeometryReported)
          /\ SERIAL_CONSOLE.some <=> config.serial_console_on
    /\ last.op = "main_vga" => (pc = "serial" /\ panic_info = "")

\* boot went on without a VGA console because the geometry was missing, and
\* the serial console exists although serial_configure failed
C11_Witness ==
    /\ last.op = "main_serial"
    /\ last.arg = <<"Err">>
    /\ config.vga_console_on
    /\ ~GeometryReported
    /\ ~VGA_CONSOLE.some
    /\ config.serial_console_on
    /\ SERIAL_CONSOLE.some

\* the positions in calls of the calls of one platform function
CallsTo(name) == {i \in 1..Len(calls) : calls[i].call = name}

\* the line settings main hands to serial_configure
ExpectedLine ==
    [data_rate_bps |-> config.serial_baud, data_bits |-> 8, stop_bits |-> 1,
     parity |-> "None", handshaking |-> "None"]

\* C17: boot makes each platform call once and repeats none: the
\* configuration read once, whether it succeeded or failed; serial_configure
\* once when the record has serial_console_on, for port 0 with the baud rate of
\* the record, 8 data bits, 1 stop bit, no parity and no handshaking, and
\* before every serial transmit; with serial_console_on false neither
\* serial_configure nor a serial transmit.
C17_PlatformCallsOnce ==
    /\ \A name \in {"api_version_get", "configuration_get", "video_get_mode",
                     "video_get_framebuffer", "serial_configure"} :
          Cardinality(CallsTo(name)) <= 1
    /\ API => Cardinality(CallsTo("configuration_get")) = 1
    /\ (ConsolesInitialised /\ config.serial_console_on) =>
          Cardinality(CallsTo("serial_configure")) = 1
    /\ \A i \in CallsTo("serial_configure") :
          /\ config.serial_console_on
          /\ calls[i] = Call("serial_configure", 0, << >>, ExpectedLine)
          /\ \A j \in CallsTo("serial_write") : i < j
    /\ CallsTo("serial_write") # {} => CallsTo("serial_configure") # {}
    /\ ~config.serial_console_on =>
          (CallsTo("serial_configure") = {} /\ CallsTo("serial_write") = {})

\* boot has run to its end with a record that turns the serial console on:
\* transmits were made, one of them failed, and serial_configure was called once
C17_Witness ==
    /\ pc = "loop"
    /\ pending = << >>
    /\ config.serial_console_on
    /\ config.serial_baud # Config_default.serial_baud
    /\ serial_errors > 0
    /\ Cardinality(CallsTo("serial_write")) >= 2
    /\ Cardinality(CallsTo("serial_configure")) = 1
    /\ Cardinality(CallsTo("configuration_get")) = 1

\* the calls made since the macro invocation began
Delivered == SubSeq(calls, printing.ncalls + 1, Len(calls))

\* what one print! of a text logs: the VGA console first, then the serial
\* console, each only when present
Dispatched(text) ==
    (IF VGA_CONSOLE.some
     THEN <<Call("VgaConsole::write_str", 0, text, NoLine)>> ELSE << >>)
    \o (IF SERIAL_CONSOLE.some
        THEN <<Call("serial_write", SERIAL_CONSOLE.port, as_bytes(text), NoLine)>>
        ELSE << >>)

\* the macro invocation has run to its end
InvocationDone == pending = << >> /\ ~panicked /\ last.op = "print"

\* C18: a completed println!(args) has handed each present console what
\* print!(args) hands it and then one '\n', the VGA console before the serial
\* console in each of the two steps; a completed println!() has handed each
\* present console one '\n'; while a println!(args) runs, what it has handed
\* over is an initial part of that sequence.
C18_PrintlnAppendsNewline ==
    /\ (printing.macro = "print" /\ InvocationDone) =>
          Delivered = Dispatched(printing.args)
    /\ (printing.macro = "println" /\ printing.has_args /\ InvocationDone) =>
          Delivered = Dispatched(printing.args) \o Dispatched(<<LF>>)
    /\ (printing.macro = "println" /\ ~printing.has_args /\ InvocationDone) =>
          Delivered = Dispatched(<<LF>>)
    /\ (printing.macro = "println" /\ printing.has_args /\ last.op = "print") =>
          LET whole == Dispatched(printing.args) \o Dispatched(<<LF>>)
          IN  /\ Len(Delivered) <= Len(whole)
              /\ Delivered = SubSeq(whole, 1, Len(Delivered))

\* a println!(args) has completed with both consoles present, after a
\* println!() had
C18_Witness ==
    /\ printing.macro = "println"
    /\ printing.has_args
    /\ InvocationDone
    /\ VGA_CONSOLE.some
    /\ SERIAL_CONSOLE.some
    /\ Len(Delivered) = 4
    /\ printing.ncalls = 2
    /\ calls[1].data = <<LF>>
    /\ calls[2].data = <<LF>>

\* C19: screen_fill stops at the count remaining = height * width: when it
\* ends it has written height * width glyphs since its clear(), one for every
\* cell of the grid, each with a foreground colour other than its background.
C19_FillWritesEveryCell ==
    last.op = "fill_end" =>
        /\ fill.written = fill.cells
        /\ ~fill.same_colour
        /\ \A r \in 0..(H - 1), c \in 0..(W - 1) :
              AttrAt(fb, r, c) \div 8 # AttrAt(fb, r, c) % 8

\* What the loop does write: one glyph less than the grid has cells, none with
\* its foreground equal to its background; the last cell is left blank.
FillWritesAllButOne ==
    last.op = "fill_end" =>
        /\ fill.written = fill.cells - 1
        /\ ~fill.same_colour
        /\ BlankCell(fb, H - 1, W - 1)
        /\ \A i \in 0..(fill.cells - 2) :
              AttrAt(fb, i \div W, i % W) \div 8 # AttrAt(fb, i \div W, i % W) % 8

\* While the loop runs, remaining counts down from height * width and is
\* never zero on entry to a turn.
FillCountsDown ==
    pc = "fill" =>
        /\ fill.remaining >= 1
        /\ fill.remaining + fill.written = fill.cells

====
